---- MODULE Spec2Model ----
(***************************************************************************)
(* Writeback (librustc_typeck/check/writeback.rs): the pass that walks a   *)
(* type-checked function body, resolves every inference variable left in   *)
(* the per-function tables (fcx.tables) and writes the results into the    *)
(* final tables (wbcx.tables).                                             *)
(*                                                                         *)
(* The pass is sequential.  Each handler of the source is an operator that *)
(* maps a "world" record w (the scratch and final tables, the session, the *)
(* fatal error if one was raised, and the values the handler has resolved  *)
(* so far) to the world after the handler; an action applies one handler.  *)
(* The recursion of the tree walker is kept in an explicit stack of        *)
(* pending visits.                                                         *)
(***************************************************************************)
EXTENDS Integers, Sequences, FiniteSets, TLC

\* ------------------------------------------------------------------ bounds
NumTyVars == 1
NumRegionVars == 1
MaxAutoderefs == 2

TyVids == 1..NumTyVars
RegionVids == 1..NumRegionVars

\* ----------------------------------------------------------------- regions
ReStatic == [k |-> "ReStatic"]
ReEmpty == [k |-> "ReEmpty"]
ReErased == [k |-> "ReErased"]
ReScope == [k |-> "ReScope"]
ReLateBound == [k |-> "ReLateBound"]
ReSkolemized == [k |-> "ReSkolemized"]
ReVar(vid) == [k |-> "ReVar", vid |-> vid]
BrNamed(def_id, name) == [k |-> "BrNamed", def_id |-> def_id, name |-> name]
BrAnon == [k |-> "BrAnon"]
ReFree(bound_region) == [k |-> "ReFree", bound_region |-> bound_region]
ReEarlyBound(index, name) == [k |-> "ReEarlyBound", index |-> index, name |-> name]

RegionKinds ==
    {"ReStatic", "ReEmpty", "ReErased", "ReScope", "ReLateBound",
     "ReSkolemized", "ReVar", "ReFree", "ReEarlyBound"}

\* ------------------------------------------------------------------- types
TyInt == [k |-> "TyInt"]
TyAdt == [k |-> "TyAdt"]
TyParam == [k |-> "TyParam"]
TyError == [k |-> "TyError"]
TyInfer(vid) == [k |-> "TyInfer", vid |-> vid]
TyRef(r, t) == [k |-> "TyRef", r |-> r, t |-> t]

\* A Kind (an element of a Substs) is a type or a region.
IsRegion(x) == x.k \in RegionKinds
IsTy(x) == ~IsRegion(x)

\* ---------------------------------------------------------------- the body
\* Node ids of the function body that is written back:
\*
\*   fn f(arg: arg_pat) -> impl Trait /* ret1, ret2 */ {   // body > blk
\*       let pat = lhs OP rhs;                             // stmt > local > op
\*       |clo_arg: clo_arg_pat| clo_body                   // clo
\*   }
\*
\* OP is body_op.kind: a binary operator (by value or not), a compound
\* assignment, a unary negation of lhs, or some other expression with the
\* two children.
ExprIds == {"body", "op", "lhs", "rhs", "clo", "clo_body"}
WalkedIds == ExprIds \cup {"arg", "arg_pat", "blk", "stmt", "pat", "clo_arg", "clo_arg_pat"}
LocalIds == {"local"}
AnonIds == {"ret1", "ret2"}
OpKinds == {"ExprBinary", "ExprAssignOp", "ExprUnary", "ExprOther"}

\* MethodCall::expr(id) and MethodCall::autoderef(id, n)
MethodCall_expr(id) == [expr_id |-> id, autoderef |-> 0]
MethodCall_autoderef(id, n) == [expr_id |-> id, autoderef |-> 1 + n]

\* ------------------------------------------------------------ partial maps
EmptyMap == [x \in {} |-> TRUE]
MapPut(m, key, v) == [x \in DOMAIN m \cup {key} |-> IF x = key THEN v ELSE m[x]]
MapRemove(m, key) == [x \in DOMAIN m \ {key} |-> m[x]]

NoIce == [k |-> "none"]

VARIABLES
    ty_sol,            \* infcx: solution of each type variable, or Unresolved
    re_sol,            \* infcx: solution of each region variable, or Unresolved
    err_count_on_creation,   \* infcx: session error count when fcx was created
    tainted_by_errors_flag,  \* infcx: set when an earlier error was observed
    body_op,           \* hir: the operator expression "op" of the body
    free_substs,       \* fcx.parameter_environment.free_substs
    anon_types,        \* fcx.anon_types
    ast_ty_to_ty_cache,\* fcx.ast_ty_to_ty_cache
    locals,            \* fcx.locals: the type of each local variable
    fcx_tables,        \* fcx.tables (scratch)
    fcx_tables0,       \* fcx.tables as it was when the pass began
    sess0,             \* the session as it was when the pass began
    tables,            \* wbcx.tables (final)
    free_to_bound_regions,   \* wbcx.free_to_bound_regions
    tcx_ast_ty_to_ty_cache,  \* tcx.ast_ty_to_ty_cache
    sess,              \* tcx.sess: err_count and the diagnostics reported
    log,               \* the inserts into wbcx.tables, in program order
    visited,           \* node ids handed to visit_node_id so far
    ice,               \* the fatal internal error that ended the pass, if any
    stack,             \* pending visits of the tree walker
    anon_todo,         \* entries of anon_types not yet iterated
    pc                 \* position in resolve_type_vars_in_body

vars == <<ty_sol, re_sol, err_count_on_creation, tainted_by_errors_flag, body_op,
          free_substs, anon_types, ast_ty_to_ty_cache, locals, fcx_tables, fcx_tables0, sess0,
          tables, free_to_bound_regions, tcx_ast_ty_to_ty_cache, sess, log, visited,
          ice, stack, anon_todo, pc>>

Unresolved == [k |-> "Unresolved"]

\* ---------------------------------------------------- the inference context
\* infcx.fully_resolve on a region: a region variable gives its solution.
fully_resolve_region(r) ==
    IF r.k = "ReVar"
    THEN IF re_sol[r.vid] = Unresolved
         THEN [ok |-> FALSE, val |-> r]
         ELSE [ok |-> TRUE, val |-> re_sol[r.vid]]
    ELSE [ok |-> TRUE, val |-> r]

\* infcx.fully_resolve on a type: every variable in it replaced by its
\* solution, or a failure when one of them has none.
fully_resolve_ref(r, i) == [ok |-> r.ok /\ i.ok, val |-> TyRef(r.val, i.val)]
RECURSIVE fully_resolve(_)
fully_resolve(t) ==
    CASE t.k = "TyInfer" ->
            IF ty_sol[t.vid] = Unresolved
            THEN [ok |-> FALSE, val |-> t]
            ELSE [ok |-> TRUE, val |-> ty_sol[t.vid]]
      [] t.k = "TyRef" -> fully_resolve_ref(fully_resolve_region(t.r), fully_resolve(t.t))
      [] OTHER -> [ok |-> TRUE, val |-> t]

\* infcx.resolve_type_vars_if_possible: solved type variables replaced, the
\* others left in place.
RECURSIVE resolve_type_vars_if_possible(_)
resolve_type_vars_if_possible(t) ==
    CASE t.k = "TyInfer" ->
            IF ty_sol[t.vid] = Unresolved THEN t ELSE ty_sol[t.vid]
      [] t.k = "TyRef" -> TyRef(t.r, resolve_type_vars_if_possible(t.t))
      [] OTHER -> t

is_scalar(t) == t.k = "TyInt"

\* TypeFoldable::needs_infer
needs_infer_region(r) == r.k = "ReVar"
RECURSIVE needs_infer_ty(_)
needs_infer_ty(t) ==
    CASE t.k = "TyInfer" -> TRUE
      [] t.k = "TyRef" -> needs_infer_region(t.r) \/ needs_infer_ty(t.t)
      [] OTHER -> FALSE
needs_infer_kind(x) == IF IsRegion(x) THEN needs_infer_region(x) ELSE needs_infer_ty(x)
needs_infer(xs) == \E i \in 1..Len(xs) : needs_infer_kind(xs[i])

\* tcx.lift_to_global: a value that still names an inference variable is not
\* owned by the global context.
lift_to_global(xs) == ~needs_infer(xs)

\* sess.has_errors, infcx.is_tainted_by_errors
has_errors(s) == s.err_count > 0
is_tainted_by_errors(s) ==
    s.err_count > err_count_on_creation \/ tainted_by_errors_flag

\* infcx.need_type_info: the "type annotations needed" error
need_type_info(s, span, t) ==
    [err_count |-> s.err_count + 1,
     diags |-> Append(s.diags, [code |-> "E0282", span |-> span, what |-> t])]

\* span_err!(sess, span, E0564, ..)
span_err_E0564(s, span, r, inside_ty) ==
    [err_count |-> s.err_count + 1,
     diags |-> Append(s.diags, [code |-> "E0564", span |-> span, what |-> r])]

\* ------------------------------------------------------------- the Resolver
\* report_error without the test of sess.has_errors()
report_error_always(s, span, t) == need_type_info(s, span, t)

\* Resolver::report_error
report_error(s, span, t) ==
    IF ~has_errors(s) THEN need_type_info(s, span, t) ELSE s

\* fold_ty reporting the error and then returning the type as it is instead
\* of tcx.types.err
fold_ty_match_unchanged(s, span, t, resolved) ==
    IF resolved.ok
    THEN [sess |-> s, val |-> resolved.val]
    ELSE [sess |-> report_error(s, span, t), val |-> t]

\* Resolver::fold_ty on the answer of infcx.fully_resolve: the resolved type
\* and the session after it
fold_ty_match(s, span, t, resolved) ==
    IF resolved.ok
    THEN [sess |-> s, val |-> resolved.val]
    ELSE [sess |-> report_error(s, span, t), val |-> TyError]

\* Resolver::fold_ty
fold_ty(s, span, t) == fold_ty_match(s, span, t, fully_resolve(t))

\* Resolver::fold_region on the answer of infcx.fully_resolve
fold_region_match(resolved) == IF resolved.ok THEN resolved.val ELSE ReStatic

\* Resolver::fold_region
fold_region(r) == fold_region_match(fully_resolve_region(r))

\* One position of a foldable value folded: acc is the session and the
\* positions folded so far.
fold_push(acc, folded) == [sess |-> folded.sess, val |-> Append(acc.val, folded.val)]
fold_kind(acc, span, x) ==
    IF IsTy(x)
    THEN fold_push(acc, fold_ty(acc.sess, span, x))
    ELSE [acc EXCEPT !.val = Append(@, fold_region(x))]

\* x.fold_with(&mut Resolver): a foldable value is the sequence of its type
\* and region positions, folded in order.
RECURSIVE fold_with(_, _, _)
fold_with(acc, span, xs) ==
    IF xs = <<>>
    THEN acc
    ELSE fold_with(fold_kind(acc, span, Head(xs)), span, Tail(xs))

\* ---------------------------------------------------------- the WritebackCx
\* A world w is the state a handler works on.  w.vals holds the values the
\* handler has resolved so far (its local variables), in order.

\* WritebackCx::resolve, once the value is folded
resolve_lift(w, x, span) ==
    IF lift_to_global(x.val)
    THEN [w EXCEPT !.sess = x.sess, !.vals = Append(@, x.val)]
    ELSE [w EXCEPT !.sess = x.sess,
                   !.ice = [k |-> "missing from the global type context", span |-> span]]

\* WritebackCx::resolve: the lifted value is appended to w.vals
resolve(w, xs, span) ==
    IF w.ice # NoIce
    THEN w
    ELSE resolve_lift(w, fold_with([sess |-> w.sess, val |-> <<>>], span, xs), span)

\* self.tables.<table>.insert(key, val); the handler's values are used up
insert(w, table, key, val) ==
    IF w.ice # NoIce
    THEN w
    ELSE [w EXCEPT !.tables[table] = MapPut(@, key, val),
                   !.log = Append(@, [table |-> table, key |-> key]),
                   !.vals = <<>>]

\* WritebackCx::write_ty_to_tables
write_ty_to_tables(w, node_id, ty) ==
    IF w.ice # NoIce
    THEN w
    ELSE IF needs_infer_ty(ty)
         THEN [w EXCEPT !.ice = [k |-> "assertion failed: !ty.needs_infer()",
                                 span |-> node_id]]
         ELSE insert(w, "node_types", node_id, ty)

\* hir: the kind of an expression of the body
expr_kind(e) ==
    CASE e = "op" -> body_op.kind
      [] e = "clo" -> "ExprClosure"
      [] e = "body" -> "ExprBlock"
      [] OTHER -> "ExprPath"

\* fcx.node_ty
node_ty(w, id) ==
    IF id \in DOMAIN w.fcx.node_types THEN w.fcx.node_types[id] ELSE TyError

\* fix_scalar_builtin_expr with the by-value test of the binary operators
\* the wrong way round
fix_scalar_builtin_expr_by_value(w, e) ==
    CASE expr_kind(e) = "ExprUnary" ->
            IF is_scalar(resolve_type_vars_if_possible(node_ty(w, "lhs")))
            THEN [w EXCEPT !.fcx.method_map = MapRemove(@, MethodCall_expr(e))]
            ELSE w
      [] expr_kind(e) \in {"ExprBinary", "ExprAssignOp"} ->
            IF /\ is_scalar(resolve_type_vars_if_possible(node_ty(w, "lhs")))
               /\ is_scalar(resolve_type_vars_if_possible(node_ty(w, "rhs")))
            THEN CASE expr_kind(e) = "ExprBinary" ->
                         IF body_op.by_value
                         THEN [w EXCEPT !.fcx.method_map = MapRemove(@, MethodCall_expr(e)),
                                        !.fcx.adjustments = MapRemove(@, "lhs")]
                         ELSE [w EXCEPT !.fcx.method_map = MapRemove(@, MethodCall_expr(e))]
                   [] expr_kind(e) = "ExprAssignOp" ->
                         [w EXCEPT !.fcx.method_map = MapRemove(@, MethodCall_expr(e)),
                                   !.fcx.adjustments = MapRemove(@, "lhs")]
            ELSE w
      [] OTHER -> w

\* WritebackCx::fix_scalar_builtin_expr
fix_scalar_builtin_expr(w, e) ==
    CASE expr_kind(e) = "ExprUnary" ->
            IF is_scalar(resolve_type_vars_if_possible(node_ty(w, "lhs")))
            THEN [w EXCEPT !.fcx.method_map = MapRemove(@, MethodCall_expr(e))]
            ELSE w
      [] expr_kind(e) \in {"ExprBinary", "ExprAssignOp"} ->
            IF /\ is_scalar(resolve_type_vars_if_possible(node_ty(w, "lhs")))
               /\ is_scalar(resolve_type_vars_if_possible(node_ty(w, "rhs")))
            THEN CASE expr_kind(e) = "ExprBinary" ->
                         IF ~body_op.by_value
                         THEN [w EXCEPT !.fcx.method_map = MapRemove(@, MethodCall_expr(e)),
                                        !.fcx.adjustments = MapRemove(@, "lhs")]
                         ELSE [w EXCEPT !.fcx.method_map = MapRemove(@, MethodCall_expr(e))]
                   [] expr_kind(e) = "ExprAssignOp" ->
                         [w EXCEPT !.fcx.method_map = MapRemove(@, MethodCall_expr(e)),
                                   !.fcx.adjustments = MapRemove(@, "lhs")]
            ELSE w
      [] OTHER -> w

\* visit_method_map_entry: the MethodCallee built from the resolved ty and
\* substs, inserted
insert_new_method(w, method_call, def_id) ==
    IF w.ice # NoIce
    THEN w
    ELSE insert(w, "method_map", method_call,
                [def_id |-> def_id, ty |-> w.vals[1][1], substs |-> w.vals[2]])

\* visit_method_map_entry looking the entry up (method_map.get) instead of
\* removing it
visit_method_map_entry_get(w, method_span, method_call) ==
    IF w.ice # NoIce \/ method_call \notin DOMAIN w.fcx.method_map
    THEN w
    ELSE insert_new_method(
             resolve(resolve(w, <<w.fcx.method_map[method_call].ty>>, method_span),
                     w.fcx.method_map[method_call].substs, method_span),
             method_call, w.fcx.method_map[method_call].def_id)

\* WritebackCx::visit_method_map_entry
visit_method_map_entry(w, method_span, method_call) ==
    IF w.ice # NoIce \/ method_call \notin DOMAIN w.fcx.method_map
    THEN w
    ELSE insert_new_method(
             resolve(resolve([w EXCEPT !.fcx.method_map = MapRemove(@, method_call)],
                             <<w.fcx.method_map[method_call].ty>>, method_span),
                     w.fcx.method_map[method_call].substs, method_span),
             method_call, w.fcx.method_map[method_call].def_id)

\* the loop `for autoderef in 0..autoderefs` of visit_adjustments
RECURSIVE visit_autoderefs(_, _, _, _, _)
visit_autoderefs(w, span, node_id, autoderef, autoderefs) ==
    IF autoderef >= autoderefs
    THEN w
    ELSE visit_autoderefs(
             visit_method_map_entry(w, span, MethodCall_autoderef(node_id, autoderef)),
             span, node_id, autoderef + 1, autoderefs)

\* visit_adjustments: the resolved adjustment inserted
insert_resolved_adjustment(w, node_id, adjustment) ==
    IF w.ice # NoIce
    THEN w
    ELSE IF adjustment.kind.k = "DerefRef"
         THEN insert(w, "adjustments", node_id,
                     [kind |-> [k |-> "DerefRef",
                                autoderefs |-> adjustment.kind.autoderefs,
                                autoref |-> w.vals[1],
                                unsize |-> adjustment.kind.unsize],
                      target |-> w.vals[2][1]])
         ELSE insert(w, "adjustments", node_id,
                     [kind |-> adjustment.kind, target |-> w.vals[1][1]])

\* visit_adjustments: the match on adjustment.kind
resolve_adjustment(w, span, node_id, adjustment) ==
    IF adjustment.kind.k = "DerefRef"
    THEN resolve(resolve(visit_autoderefs(w, span, node_id, 0, adjustment.kind.autoderefs),
                         adjustment.kind.autoref, span),
                 <<adjustment.target>>, span)
    ELSE resolve(w, <<adjustment.target>>, span)

\* visit_adjustments storing the resolved adjustment first and transferring
\* the methods of its steps afterwards
visit_adjustments_steps_last(w, span, node_id) ==
    IF w.ice # NoIce \/ node_id \notin DOMAIN w.fcx.adjustments
    THEN w
    ELSE IF w.fcx.adjustments[node_id].kind.k = "DerefRef"
         THEN visit_autoderefs(
                  insert_resolved_adjustment(
                      resolve(resolve([w EXCEPT !.fcx.adjustments = MapRemove(@, node_id)],
                                      w.fcx.adjustments[node_id].kind.autoref, span),
                              <<w.fcx.adjustments[node_id].target>>, span),
                      node_id, w.fcx.adjustments[node_id]),
                  span, node_id, 0, w.fcx.adjustments[node_id].kind.autoderefs)
         ELSE insert_resolved_adjustment(
                  resolve_adjustment([w EXCEPT !.fcx.adjustments = MapRemove(@, node_id)],
                                     span, node_id, w.fcx.adjustments[node_id]),
                  node_id, w.fcx.adjustments[node_id])

\* WritebackCx::visit_adjustments
visit_adjustments(w, span, node_id) ==
    IF w.ice # NoIce \/ node_id \notin DOMAIN w.fcx.adjustments
    THEN w
    ELSE insert_resolved_adjustment(
             resolve_adjustment([w EXCEPT !.fcx.adjustments = MapRemove(@, node_id)],
                                span, node_id, w.fcx.adjustments[node_id]),
             node_id, w.fcx.adjustments[node_id])

\* ItemSubsts::is_noop
is_noop(substs) == substs = <<>>

\* the callback of visit_node_id without the test of is_noop
write_substs_to_tcx_always(w, span, node_id) ==
    IF w.ice # NoIce
    THEN w
    ELSE IF needs_infer(w.vals[1])
         THEN [w EXCEPT !.ice = [k |-> "assertion failed: !item_substs.substs.needs_infer()",
                                 span |-> span]]
         ELSE insert(w, "item_substs", node_id, w.vals[1])

\* the callback visit_node_id hands to fcx.opt_node_ty_substs, once the
\* substitutions are resolved
write_substs_to_tcx(w, span, node_id) ==
    IF w.ice # NoIce
    THEN w
    ELSE IF ~is_noop(w.vals[1])
         THEN IF needs_infer(w.vals[1])
              THEN [w EXCEPT !.ice = [k |-> "assertion failed: !item_substs.substs.needs_infer()",
                                      span |-> span]]
              ELSE insert(w, "item_substs", node_id, w.vals[1])
         ELSE [w EXCEPT !.vals = <<>>]

\* fcx.opt_node_ty_substs with the callback of visit_node_id
opt_node_ty_substs(w, span, node_id) ==
    IF w.ice = NoIce /\ node_id \in DOMAIN w.fcx.item_substs
    THEN write_substs_to_tcx(resolve(w, w.fcx.item_substs[node_id], span), span, node_id)
    ELSE w

\* visit_node_id: "Export associated path extensions"
export_path_def(w, node_id) ==
    IF node_id \in DOMAIN w.fcx.type_relative_path_defs
    THEN insert([w EXCEPT !.fcx.type_relative_path_defs = MapRemove(@, node_id)],
                "type_relative_path_defs", node_id, w.fcx.type_relative_path_defs[node_id])
    ELSE w

\* visit_node_id: "Resolve the type of the node"
resolve_node_ty(w, span, node_id) == resolve(w, <<node_ty(w, node_id)>>, span)
write_node_ty(w, node_id) ==
    IF w.ice # NoIce THEN w ELSE write_ty_to_tables(w, node_id, w.vals[1][1])

\* WritebackCx::visit_node_id
visit_node_id(w, span, node_id) ==
    IF w.ice # NoIce
    THEN w
    ELSE opt_node_ty_substs(
             write_node_ty(
                 resolve_node_ty(
                     visit_adjustments(
                         export_path_def([w EXCEPT !.visited = @ \cup {node_id}], node_id),
                         span, node_id),
                     span, node_id),
                 node_id),
             span, node_id)

\* ---------------------------------------------------------- the tree walker
Visit(kind, id) == [visit |-> kind, id |-> id]

\* intravisit::walk_expr, walk_block, walk_stmt, walk_local, walk_pat: the
\* visits of the children, in order
walk_expr(e) ==
    CASE e = "body" -> <<Visit("block", "blk")>>
      [] e = "op" -> IF body_op.kind = "ExprUnary"
                     THEN <<Visit("expr", "lhs")>>
                     ELSE <<Visit("expr", "lhs"), Visit("expr", "rhs")>>
      [] OTHER -> <<>>
walk_block(b) == <<Visit("stmt", "stmt"), Visit("expr", "clo")>>
walk_stmt(s) == <<Visit("local", "local")>>
walk_local(l) == <<Visit("pat", "pat"), Visit("expr", "op")>>
walk_pat(p) == <<>>

\* hir::Body of the function ("fn") and of the closure ("clo")
body_arguments(body) == IF body = "fn" THEN <<"arg">> ELSE <<"clo_arg">>
\* Visitor::visit_body = intravisit::walk_body
visit_body(body) ==
    IF body = "fn"
    THEN <<Visit("pat", "arg_pat"), Visit("expr", "body")>>
    ELSE <<Visit("pat", "clo_arg_pat"), Visit("expr", "clo_body")>>

\* the span of an argument's pattern
arg_pat_span(arg) == IF arg = "arg" THEN "arg_pat" ELSE "clo_arg_pat"

\* resolve_type_vars_in_body: `for arg in &body.arguments
\*                                { wbcx.visit_node_id(arg.pat.span, arg.id) }`
RECURSIVE visit_fn_arguments(_, _)
visit_fn_arguments(w, args) ==
    IF args = <<>>
    THEN w
    ELSE visit_fn_arguments(visit_node_id(w, arg_pat_span(Head(args)), Head(args)),
                            Tail(args))

\* visit_expr: `for arg in &body.arguments { self.visit_node_id(e.span, arg.id) }`
RECURSIVE visit_closure_arguments(_, _, _)
visit_closure_arguments(w, e, args) ==
    IF args = <<>>
    THEN w
    ELSE visit_closure_arguments(visit_node_id(w, e, Head(args)), e, Tail(args))

\* visit_expr: `if let hir::ExprClosure(..) = e.node`
visit_expr_closure(w, e) ==
    IF expr_kind(e) = "ExprClosure"
    THEN visit_closure_arguments(w, e, body_arguments(e))
    ELSE w

\* Visitor::visit_expr, up to the recursion into the closure body and the
\* children
visit_expr(w, e) ==
    visit_expr_closure(
        visit_method_map_entry(
            visit_node_id(fix_scalar_builtin_expr(w, e), e, e),
            e, MethodCall_expr(e)),
        e)

\* the visits visit_expr recurses into
visit_expr_children(e) ==
    (IF expr_kind(e) = "ExprClosure" THEN visit_body(e) ELSE <<>>) \o walk_expr(e)

\* Visitor::visit_local, after walk_local
visit_local_ty(w, l) == write_node_ty(resolve(w, <<locals[l]>>, l), l)

\* ----------------------------------------------- the whole-function sweeps
\* self.tables.<table>.insert(key, the value just resolved)
insert_resolved(w, table, key) ==
    IF w.ice # NoIce THEN w ELSE insert(w, table, key, w.vals[1])

\* visit_upvar_borrow_map: the new capture of one upvar
insert_upvar_borrow(w, upvar_id, kind) ==
    IF w.ice # NoIce
    THEN w
    ELSE insert(w, "upvar_capture_map", upvar_id,
                [k |-> "ByRef", kind |-> kind, region |-> w.vals[1][1]])

\* visit_upvar_borrow_map inserting the capture as it is, the region of a
\* by-reference capture not resolved
new_upvar_capture_unresolved(w, upvar_id, upvar_capture) ==
    insert(w, "upvar_capture_map", upvar_id, upvar_capture)

\* visit_upvar_borrow_map: the match on the capture of one upvar
new_upvar_capture(w, upvar_id, upvar_capture) ==
    IF upvar_capture.k = "ByValue"
    THEN insert(w, "upvar_capture_map", upvar_id, upvar_capture)
    ELSE insert_upvar_borrow(resolve(w, <<upvar_capture.region>>, upvar_id.var_id),
                             upvar_id, upvar_capture.kind)

\* the entry a loop over the keys `ids` of a map takes next
NextKey(ids) == CHOOSE x \in ids : TRUE

\* WritebackCx::visit_upvar_borrow_map
RECURSIVE visit_upvar_borrow_map(_, _)
visit_upvar_borrow_map(w, upvar_ids) ==
    IF upvar_ids = {} \/ w.ice # NoIce
    THEN w
    ELSE visit_upvar_borrow_map(
             new_upvar_capture(w, NextKey(upvar_ids),
                               w.fcx.upvar_capture_map[NextKey(upvar_ids)]),
             upvar_ids \ {NextKey(upvar_ids)})

\* visit_closures with the closure signatures copied as they are, without
\* self.resolve
visit_closure_tys_unresolved(w, ids) ==
    [w EXCEPT !.tables.closure_tys = w.fcx.closure_tys]

\* WritebackCx::visit_closures: the loop over closure_tys
RECURSIVE visit_closure_tys(_, _)
visit_closure_tys(w, ids) ==
    IF ids = {} \/ w.ice # NoIce
    THEN w
    ELSE visit_closure_tys(
             insert_resolved(resolve(w, w.fcx.closure_tys[NextKey(ids)], NextKey(ids)),
                             "closure_tys", NextKey(ids)),
             ids \ {NextKey(ids)})

\* WritebackCx::visit_closures: the loop over closure_kinds
RECURSIVE visit_closure_kinds(_, _)
visit_closure_kinds(w, ids) ==
    IF ids = {} \/ w.ice # NoIce
    THEN w
    ELSE visit_closure_kinds(
             insert(w, "closure_kinds", NextKey(ids), w.fcx.closure_kinds[NextKey(ids)]),
             ids \ {NextKey(ids)})

\* WritebackCx::visit_closures
visit_closures(w) ==
    visit_closure_kinds(visit_closure_tys(w, DOMAIN w.fcx.closure_tys),
                        DOMAIN w.fcx.closure_kinds)

\* WritebackCx::visit_liberated_fn_sigs
RECURSIVE visit_liberated_fn_sigs(_, _)
visit_liberated_fn_sigs(w, ids) ==
    IF ids = {} \/ w.ice # NoIce
    THEN w
    ELSE visit_liberated_fn_sigs(
             insert_resolved(resolve(w, w.fcx.liberated_fn_sigs[NextKey(ids)], NextKey(ids)),
                             "liberated_fn_sigs", NextKey(ids)),
             ids \ {NextKey(ids)})

\* WritebackCx::visit_fru_field_types
RECURSIVE visit_fru_field_types(_, _)
visit_fru_field_types(w, ids) ==
    IF ids = {} \/ w.ice # NoIce
    THEN w
    ELSE visit_fru_field_types(
             insert_resolved(resolve(w, w.fcx.fru_field_types[NextKey(ids)], NextKey(ids)),
                             "fru_field_types", NextKey(ids)),
             ids \ {NextKey(ids)})

\* WritebackCx::visit_cast_types
visit_cast_types(w) ==
    [w EXCEPT !.tables.cast_kinds =
                  [x \in DOMAIN @ \cup DOMAIN w.fcx.cast_kinds |->
                      IF x \in DOMAIN w.fcx.cast_kinds THEN w.fcx.cast_kinds[x] ELSE @[x]]]

\* WritebackCx::visit_lints (LintTable::transfer)
visit_lints(w) ==
    [w EXCEPT !.tables.lints = @ \cup w.fcx.lints, !.fcx.lints = {}]

\* WritebackCx::visit_free_region_map
visit_free_region_map(w) ==
    [w EXCEPT !.tables.free_region_map = w.fcx.free_region_map]

\* ------------------------------------------------------------ opaque types
\* The regions of a type, outermost first, and the type with them replaced.
RECURSIVE regions_of(_)
regions_of(t) == IF t.k = "TyRef" THEN <<t.r>> \o regions_of(t.t) ELSE <<>>
RECURSIVE with_regions(_, _)
with_regions(t, rs) ==
    IF t.k = "TyRef" THEN TyRef(Head(rs), with_regions(t.t, Tail(rs))) ELSE t

\* the closure of visit_anon_types reporting a rejected region and then
\* returning the region itself instead of gcx.types.re_static
anon_region_kept(w, node_id, r, inside_ty) ==
    IF r.k = "ReStatic" THEN [w EXCEPT !.vals[2] = Append(@, ReStatic)]
    ELSE IF r.k = "ReEmpty" THEN [w EXCEPT !.vals[2] = Append(@, ReEmpty)]
    ELSE IF /\ r.k = "ReFree"
            /\ r.bound_region.k = "BrNamed"
            /\ r.bound_region.def_id \in DOMAIN w.free_to_bound_regions
    THEN [w EXCEPT !.vals[2] = Append(@, w.free_to_bound_regions[r.bound_region.def_id])]
    ELSE IF r.k \in {"ReFree", "ReEarlyBound", "ReLateBound", "ReScope", "ReSkolemized"}
    THEN [w EXCEPT !.sess = span_err_E0564(@, node_id, r, inside_ty),
                   !.vals[2] = Append(@, r)]
    ELSE [w EXCEPT !.ice = [k |-> "invalid region in impl Trait",
                            span |-> node_id, region |-> r]]

\* the closure of visit_anon_types taking an erased region with the
\* rejected ones: E0564 and the static region instead of span_bug!
anon_region_erased(w, node_id, r, inside_ty) ==
    IF r.k = "ReStatic" THEN [w EXCEPT !.vals[2] = Append(@, ReStatic)]
    ELSE IF r.k = "ReEmpty" THEN [w EXCEPT !.vals[2] = Append(@, ReEmpty)]
    ELSE IF /\ r.k = "ReFree"
            /\ r.bound_region.k = "BrNamed"
            /\ r.bound_region.def_id \in DOMAIN w.free_to_bound_regions
    THEN [w EXCEPT !.vals[2] = Append(@, w.free_to_bound_regions[r.bound_region.def_id])]
    ELSE IF r.k \in {"ReFree", "ReEarlyBound", "ReLateBound", "ReScope", "ReSkolemized",
                     "ReErased"}
    THEN [w EXCEPT !.sess = span_err_E0564(@, node_id, r, inside_ty),
                   !.vals[2] = Append(@, ReStatic)]
    ELSE [w EXCEPT !.ice = [k |-> "invalid region in impl Trait",
                            span |-> node_id, region |-> r]]

\* the closure visit_anon_types hands to gcx.fold_regions; the region it
\* returns is appended to w.vals[2]
anon_region(w, node_id, r, inside_ty) ==
    IF r.k = "ReStatic" THEN [w EXCEPT !.vals[2] = Append(@, ReStatic)]
    ELSE IF r.k = "ReEmpty" THEN [w EXCEPT !.vals[2] = Append(@, ReEmpty)]
    ELSE IF /\ r.k = "ReFree"
            /\ r.bound_region.k = "BrNamed"
            /\ r.bound_region.def_id \in DOMAIN w.free_to_bound_regions
    THEN [w EXCEPT !.vals[2] = Append(@, w.free_to_bound_regions[r.bound_region.def_id])]
    ELSE IF r.k \in {"ReFree", "ReEarlyBound", "ReLateBound", "ReScope", "ReSkolemized"}
    THEN [w EXCEPT !.sess = span_err_E0564(@, node_id, r, inside_ty),
                   !.vals[2] = Append(@, ReStatic)]
    ELSE [w EXCEPT !.ice = [k |-> "invalid region in impl Trait",
                            span |-> node_id, region |-> r]]

\* gcx.fold_regions: every region of the type handed to the closure
RECURSIVE fold_regions_from(_, _, _, _)
fold_regions_from(w, node_id, rs, inside_ty) ==
    IF w.ice # NoIce \/ rs = <<>>
    THEN w
    ELSE fold_regions_from(anon_region(w, node_id, Head(rs), inside_ty),
                           node_id, Tail(rs), inside_ty)
fold_regions(w, node_id) ==
    IF w.ice # NoIce
    THEN w
    ELSE fold_regions_from([w EXCEPT !.vals = Append(@, <<>>)], node_id,
                           regions_of(w.vals[1][1]), w.vals[1][1])

\* visit_anon_types: self.tables.node_types.insert(node_id, outside_ty)
insert_outside_ty(w, node_id) ==
    IF w.ice # NoIce
    THEN w
    ELSE insert(w, "node_types", node_id, with_regions(w.vals[1][1], w.vals[2]))

\* WritebackCx::visit_anon_types: one iteration of the loop
visit_anon_type(w, node_id) ==
    insert_outside_ty(fold_regions(resolve(w, <<anon_types[node_id]>>, node_id), node_id),
                      node_id)

\* visit_type_nodes: self.fcx.tcx.ast_ty_to_ty_cache.borrow_mut().insert(id, ty)
insert_type_node(w, id) ==
    IF w.ice # NoIce
    THEN w
    ELSE [w EXCEPT !.tcx_ast_ty_to_ty_cache = MapPut(@, id, w.vals[1][1]), !.vals = <<>>]

\* WritebackCx::visit_type_nodes
RECURSIVE visit_type_nodes(_, _)
visit_type_nodes(w, ids) ==
    IF ids = {} \/ w.ice # NoIce
    THEN w
    ELSE visit_type_nodes(
             insert_type_node(resolve(w, <<ast_ty_to_ty_cache[NextKey(ids)]>>, NextKey(ids)),
                              NextKey(ids)),
             ids \ {NextKey(ids)})

\* The loop of WritebackCx::new numbering the early-bound regions by
\* their rank among the lifetime parameters instead of their position in
\* free_substs
lifetimes_before(i) == Cardinality({j \in 1..(i - 1) : IsRegion(free_substs[j])})
RECURSIVE new_free_to_bound_regions_rank(_, _)
new_free_to_bound_regions_rank(w, i) ==
    IF i > Len(free_substs) \/ w.ice # NoIce
    THEN w
    ELSE IF ~IsRegion(free_substs[i])
         THEN new_free_to_bound_regions_rank(w, i + 1)
         ELSE IF free_substs[i].k = "ReFree" /\ free_substs[i].bound_region.k = "BrNamed"
              THEN new_free_to_bound_regions_rank(
                       [w EXCEPT !.free_to_bound_regions =
                                     MapPut(@, free_substs[i].bound_region.def_id,
                                            ReEarlyBound(lifetimes_before(i),
                                                         free_substs[i].bound_region.name))],
                       i + 1)
              ELSE [w EXCEPT !.ice = [k |-> "not a free region for an early-bound lifetime",
                                      region |-> free_substs[i]]]

\* WritebackCx::new: the loop that builds free_to_bound_regions, from the
\* 1-based position i of free_substs on
RECURSIVE new_free_to_bound_regions(_, _)
new_free_to_bound_regions(w, i) ==
    IF i > Len(free_substs) \/ w.ice # NoIce
    THEN w
    ELSE IF ~IsRegion(free_substs[i])
         THEN new_free_to_bound_regions(w, i + 1)
         ELSE IF free_substs[i].k = "ReFree" /\ free_substs[i].bound_region.k = "BrNamed"
              THEN new_free_to_bound_regions(
                       [w EXCEPT !.free_to_bound_regions =
                                     MapPut(@, free_substs[i].bound_region.def_id,
                                            ReEarlyBound(i - 1, free_substs[i].bound_region.name))],
                       i + 1)
              ELSE [w EXCEPT !.ice = [k |-> "not a free region for an early-bound lifetime",
                                      region |-> free_substs[i]]]

\* WritebackCx::new
new(w) ==
    IF DOMAIN anon_types = {}
    THEN w
    ELSE new_free_to_bound_regions(w, 1)

\* ------------------------------------------------------------- the state
World ==
    [fcx |-> fcx_tables, tables |-> tables, sess |-> sess, log |-> log,
     ice |-> ice, visited |-> visited,
     free_to_bound_regions |-> free_to_bound_regions,
     tcx_ast_ty_to_ty_cache |-> tcx_ast_ty_to_ty_cache,
     vals |-> <<>>]

\* the inputs of the pass, which it only reads
Inputs ==
    <<ty_sol, re_sol, err_count_on_creation, tainted_by_errors_flag, body_op,
      free_substs, anon_types, ast_ty_to_ty_cache, locals, fcx_tables0, sess0>>

\* The world after a handler; a fatal internal error ends the pass.
Step(w, next_pc, next_stack) ==
    /\ fcx_tables' = w.fcx
    /\ tables' = w.tables
    /\ sess' = w.sess
    /\ log' = w.log
    /\ ice' = w.ice
    /\ visited' = w.visited
    /\ free_to_bound_regions' = w.free_to_bound_regions
    /\ tcx_ast_ty_to_ty_cache' = w.tcx_ast_ty_to_ty_cache
    /\ pc' = IF w.ice # NoIce THEN "aborted" ELSE next_pc
    /\ stack' = IF w.ice # NoIce THEN <<>> ELSE next_stack
    /\ UNCHANGED Inputs

\* where the pass goes on once the walker's stack is `stk`
AfterVisit(stk) == IF stk = <<>> THEN "visit_upvar_borrow_map" ELSE "walk"

\* TypeckTables::empty()
EmptyTables ==
    [node_types |-> EmptyMap, item_substs |-> EmptyMap, adjustments |-> EmptyMap,
     method_map |-> EmptyMap, type_relative_path_defs |-> EmptyMap,
     upvar_capture_map |-> EmptyMap, closure_tys |-> EmptyMap,
     closure_kinds |-> EmptyMap, liberated_fn_sigs |-> EmptyMap,
     fru_field_types |-> EmptyMap, cast_kinds |-> EmptyMap, lints |-> {},
     free_region_map |-> {}, used_trait_imports |-> {}, tainted_by_errors |-> FALSE]

\* ------------------------------------------------------------ the actions
\* WritebackCx::new (line 36 of resolve_type_vars_in_body)
New ==
    /\ pc = "new"
    /\ Step(new(World), "visit_arguments", <<>>)
    /\ UNCHANGED anon_todo

\* lines 37-39
VisitArguments ==
    /\ pc = "visit_arguments"
    /\ Step(visit_fn_arguments(World, body_arguments("fn")), "visit_body", <<>>)
    /\ UNCHANGED anon_todo

\* line 40
VisitBody ==
    /\ pc = "visit_body"
    /\ Step(World, "walk", visit_body("fn"))
    /\ UNCHANGED anon_todo

VisitStmt ==
    /\ pc = "walk" /\ stack # <<>> /\ Head(stack).visit = "stmt"
    /\ Step(visit_node_id(World, Head(stack).id, Head(stack).id),
            AfterVisit(walk_stmt(Head(stack).id) \o Tail(stack)),
            walk_stmt(Head(stack).id) \o Tail(stack))
    /\ UNCHANGED anon_todo

VisitExpr ==
    /\ pc = "walk" /\ stack # <<>> /\ Head(stack).visit = "expr"
    /\ Step(visit_expr(World, Head(stack).id),
            AfterVisit(visit_expr_children(Head(stack).id) \o Tail(stack)),
            visit_expr_children(Head(stack).id) \o Tail(stack))
    /\ UNCHANGED anon_todo

VisitBlock ==
    /\ pc = "walk" /\ stack # <<>> /\ Head(stack).visit = "block"
    /\ Step(visit_node_id(World, Head(stack).id, Head(stack).id),
            AfterVisit(walk_block(Head(stack).id) \o Tail(stack)),
            walk_block(Head(stack).id) \o Tail(stack))
    /\ UNCHANGED anon_todo

VisitPat ==
    /\ pc = "walk" /\ stack # <<>> /\ Head(stack).visit = "pat"
    /\ Step(visit_node_id(World, Head(stack).id, Head(stack).id),
            AfterVisit(walk_pat(Head(stack).id) \o Tail(stack)),
            walk_pat(Head(stack).id) \o Tail(stack))
    /\ UNCHANGED anon_todo

\* visit_local: intravisit::walk_local first
VisitLocal ==
    /\ pc = "walk" /\ stack # <<>> /\ Head(stack).visit = "local"
    /\ Step(World, "walk",
            walk_local(Head(stack).id) \o <<Visit("local_ty", Head(stack).id)>> \o Tail(stack))
    /\ UNCHANGED anon_todo

\* visit_local: then the type of the local
VisitLocalTy ==
    /\ pc = "walk" /\ stack # <<>> /\ Head(stack).visit = "local_ty"
    /\ Step(visit_local_ty(World, Head(stack).id), AfterVisit(Tail(stack)), Tail(stack))
    /\ UNCHANGED anon_todo

VisitUpvarBorrowMap ==
    /\ pc = "visit_upvar_borrow_map"
    /\ Step(visit_upvar_borrow_map(World, DOMAIN fcx_tables.upvar_capture_map),
            "visit_closures", <<>>)
    /\ UNCHANGED anon_todo

VisitClosures ==
    /\ pc = "visit_closures"
    /\ Step(visit_closures(World), "visit_liberated_fn_sigs", <<>>)
    /\ UNCHANGED anon_todo

VisitLiberatedFnSigs ==
    /\ pc = "visit_liberated_fn_sigs"
    /\ Step(visit_liberated_fn_sigs(World, DOMAIN fcx_tables.liberated_fn_sigs),
            "visit_fru_field_types", <<>>)
    /\ UNCHANGED anon_todo

VisitFruFieldTypes ==
    /\ pc = "visit_fru_field_types"
    /\ Step(visit_fru_field_types(World, DOMAIN fcx_tables.fru_field_types),
            "visit_anon_types", <<>>)
    /\ anon_todo' = DOMAIN anon_types

\* visit_anon_types: one entry of fcx.anon_types, in the map's iteration order
VisitAnonType ==
    /\ pc = "visit_anon_types"
    /\ \E node_id \in anon_todo :
          /\ Step(visit_anon_type(World, node_id), "visit_anon_types", <<>>)
          /\ anon_todo' = anon_todo \ {node_id}

\* visit_anon_types: the loop is over; visit_type_nodes
VisitTypeNodes ==
    /\ pc = "visit_anon_types" /\ anon_todo = {}
    /\ Step(visit_type_nodes(World, DOMAIN ast_ty_to_ty_cache), "visit_cast_types", <<>>)
    /\ UNCHANGED anon_todo

VisitCastTypes ==
    /\ pc = "visit_cast_types"
    /\ Step(visit_cast_types(World), "visit_lints", <<>>)
    /\ UNCHANGED anon_todo

VisitLints ==
    /\ pc = "visit_lints"
    /\ Step(visit_lints(World), "visit_free_region_map", <<>>)
    /\ UNCHANGED anon_todo

VisitFreeRegionMap ==
    /\ pc = "visit_free_region_map"
    /\ Step(visit_free_region_map(World), "alloc_tables", <<>>)
    /\ UNCHANGED anon_todo

\* lines 51-58: used_trait_imports, tainted_by_errors, alloc_tables
alloc_tables(w) ==
    [w EXCEPT !.tables.used_trait_imports = w.fcx.used_trait_imports,
              !.fcx.used_trait_imports = {},
              !.tables.tainted_by_errors = is_tainted_by_errors(w.sess)]

AllocTables ==
    /\ pc = "alloc_tables"
    /\ Step(alloc_tables(World), "done", <<>>)
    /\ UNCHANGED anon_todo

Next ==
    \/ New
    \/ VisitArguments
    \/ VisitBody
    \/ VisitStmt
    \/ VisitExpr
    \/ VisitBlock
    \/ VisitPat
    \/ VisitLocal
    \/ VisitLocalTy
    \/ VisitUpvarBorrowMap
    \/ VisitClosures
    \/ VisitLiberatedFnSigs
    \/ VisitFruFieldTypes
    \/ VisitAnonType
    \/ VisitTypeNodes
    \/ VisitCastTypes
    \/ VisitLints
    \/ VisitFreeRegionMap
    \/ AllocTables

\* -------------------------------------------------------- the initial states
\* What the type check of the function leaves behind for the pass.  The
\* families below each vary one part of it and keep the rest at the default.
TyInfers == {TyInfer(vid) : vid \in TyVids}
ReVars == {ReVar(vid) : vid \in RegionVids}
TySols == {TyInt, TyAdt, Unresolved}

Named(def_id) == ReFree(BrNamed(def_id, def_id))

\* The session's error count, the count when the fcx was created and the
\* tainted flag.  The flag is only ever set on an error that was reported.
ErrStates ==
    {[err_count |-> 0, on_creation |-> 0, flag |-> FALSE],
     [err_count |-> 1, on_creation |-> 0, flag |-> FALSE],
     [err_count |-> 1, on_creation |-> 1, flag |-> FALSE],
     [err_count |-> 1, on_creation |-> 1, flag |-> TRUE]}
ErrStates2 ==
    {[err_count |-> 0, on_creation |-> 0, flag |-> FALSE],
     [err_count |-> 1, on_creation |-> 1, flag |-> TRUE]}

DefaultBodyOp == [kind |-> "ExprOther", by_value |-> FALSE]
DefaultFreeSubsts == <<TyParam, Named("a")>>
DefaultLocals == [l \in LocalIds |-> TyInfer(1)]
DefaultUpvarId == [var_id |-> "arg", closure_expr_id |-> "clo"]
DefaultTables ==
    [node_types |-> [n \in WalkedIds |-> TyInt],
     item_substs |-> EmptyMap,
     adjustments |-> EmptyMap,
     method_map |-> EmptyMap,
     type_relative_path_defs |-> EmptyMap,
     upvar_capture_map |-> (DefaultUpvarId :> [k |-> "ByValue"]),
     closure_tys |-> ("clo" :> <<TyInt, TyInt>>),
     closure_kinds |-> ("clo" :> "Fn"),
     liberated_fn_sigs |-> ("fn" :> <<TyInt, TyInt>>),
     fru_field_types |-> EmptyMap,
     cast_kinds |-> ("rhs" :> "NumericIntCast"),
     lints |-> {"unused_variables"},
     free_region_map |-> {<<Named("a"), Named("b")>>},
     used_trait_imports |-> {"trait_def"}]

InitWith(tys, res, err, op, substs, anon, cache, loc, scratch) ==
    /\ ty_sol = tys
    /\ re_sol = res
    /\ err_count_on_creation = err.on_creation
    /\ tainted_by_errors_flag = err.flag
    /\ body_op = op
    /\ free_substs = substs
    /\ anon_types = anon
    /\ ast_ty_to_ty_cache = cache
    /\ locals = loc
    /\ fcx_tables = scratch
    /\ fcx_tables0 = scratch
    /\ sess = [err_count |-> err.err_count, diags |-> <<>>]
    /\ sess0 = [err_count |-> err.err_count, diags |-> <<>>]
    /\ tables = EmptyTables
    /\ free_to_bound_regions = EmptyMap
    /\ tcx_ast_ty_to_ty_cache = EmptyMap
    /\ log = <<>>
    /\ visited = {}
    /\ ice = NoIce
    /\ stack = <<>>
    /\ anon_todo = {}
    /\ pc = "new"

\* Operator expressions: the operator, the operand types, the overloaded
\* operator's method entry and the adjustment the by-reference operators put
\* on the left operand.
OpAdjustments(lhs_ty) ==
    {EmptyMap,
     "lhs" :> [kind |-> [k |-> "DerefRef", autoderefs |-> 0,
                         autoref |-> <<ReVar(1)>>, unsize |-> FALSE],
               target |-> TyRef(ReVar(1), lhs_ty)],
     "lhs" :> [kind |-> [k |-> "NeverToAny"], target |-> lhs_ty]}
OpMethods(lhs_ty) ==
    {EmptyMap,
     MethodCall_expr("op") :> [def_id |-> "op_method", ty |-> TyRef(ReVar(1), lhs_ty),
                               substs |-> <<lhs_ty>>]}
InitOperators ==
    \E tys \in [TyVids -> TySols], err \in ErrStates2,
       kind \in OpKinds, by_value \in BOOLEAN,
       lhs_ty \in {TyInt} \cup TyInfers, rhs_ty \in {TyInt, TyAdt} :
      \E adj \in OpAdjustments(lhs_ty), mm \in OpMethods(lhs_ty) :
        /\ by_value => kind = "ExprBinary"
        /\ InitWith(tys, [v \in RegionVids |-> ReScope], err,
                    [kind |-> kind, by_value |-> by_value],
                    DefaultFreeSubsts, EmptyMap, EmptyMap, DefaultLocals,
                    [DefaultTables EXCEPT
                        !.node_types = [@ EXCEPT !["lhs"] = lhs_ty, !["rhs"] = rhs_ty],
                        !.adjustments = adj,
                        !.method_map = mm])

\* Adjustments with their auto-dereference steps, on the left operand of a
\* non-operator expression.
Adjusts ==
    {[k |-> "ReifyFnPointer"], [k |-> "MutToConstPointer"]}
    \cup {[k |-> "DerefRef", autoderefs |-> n, autoref |-> a, unsize |-> FALSE] :
             n \in 0..MaxAutoderefs, a \in {<<>>, <<ReVar(1)>>}}
StepsOf(adjust) == IF adjust.k = "DerefRef" THEN 0..(adjust.autoderefs - 1) ELSE {}
StepMethod(n) ==
    [def_id |-> <<"deref", n>>, ty |-> TyRef(ReVar(1), TyInfer(1)), substs |-> <<TyInfer(1)>>]
InitAdjustments ==
    \E tys \in [TyVids -> TySols], res \in [RegionVids -> {ReScope, Unresolved}],
       err \in ErrStates2 :
      \E adjs \in {EmptyMap} \cup
                  {"lhs" :> [kind |-> a, target |-> TyRef(ReVar(1), TyInfer(1))] : a \in Adjusts} :
        \E steps \in SUBSET (IF adjs = EmptyMap THEN {} ELSE StepsOf(adjs["lhs"].kind)) :
          InitWith(tys, res, err, DefaultBodyOp, DefaultFreeSubsts, EmptyMap, EmptyMap,
                   DefaultLocals,
                   [DefaultTables EXCEPT
                       !.node_types = [@ EXCEPT !["lhs"] = TyAdt, !["op"] = TyInfer(1)],
                       !.adjustments = adjs,
                       !.method_map = [mc \in {MethodCall_autoderef("lhs", n) : n \in steps} |->
                                          StepMethod(mc.autoderef - 1)],
                       !.item_substs = ("op" :> <<TyInfer(1)>>)])

\* Substitutions and type-relative path definitions of the nodes.
ItemSubsts ==
    {<<>>, <<TyInt>>, <<TyInfer(1)>>, <<ReVar(1), TyInfer(1)>>}
InitSubsts ==
    \E tys \in [TyVids -> TySols], res \in [RegionVids -> {ReScope, Unresolved}],
       err \in ErrStates2 :
      \E substs \in {EmptyMap} \cup {"op" :> x : x \in ItemSubsts},
         defs \in {EmptyMap, "rhs" :> "assoc_def"} :
        InitWith(tys, res, err, DefaultBodyOp, DefaultFreeSubsts, EmptyMap, EmptyMap,
                 DefaultLocals,
                 [DefaultTables EXCEPT
                     !.node_types = [@ EXCEPT !["op"] = TyInfer(1)],
                     !.item_substs = substs,
                     !.type_relative_path_defs = defs])

\* The whole-function tables: closures, upvar captures, liberated
\* signatures, struct-update field types, and the cache of type nodes.
Closures ==
    {[ty |-> <<TyInt, TyInt>>, kind |-> "Fn"],
     [ty |-> <<TyInfer(1), TyRef(ReVar(1), TyAdt)>>, kind |-> "FnOnce"]}
TypeNodes ==
    {[fru |-> EmptyMap, cache |-> EmptyMap],
     [fru |-> "rhs" :> <<TyInfer(1), TyAdt>>, cache |-> "arg_ty" :> TyInfer(1)]}
InitSweep ==
    \E tys \in [TyVids -> TySols], res \in [RegionVids -> {ReStatic, Unresolved}],
       err \in ErrStates :
      \E capture \in {[k |-> "ByValue"]} \cup
                     {[k |-> "ByRef", kind |-> "MutBorrow", region |-> r] :
                         r \in {ReVar(1), ReScope}},
         closure \in Closures,
         fn_sig \in {<<TyInt>>, <<TyRef(ReVar(1), TyInt), TyInfer(1)>>},
         nodes \in TypeNodes :
        InitWith(tys, res, err, DefaultBodyOp, DefaultFreeSubsts, EmptyMap, nodes.cache,
                 DefaultLocals,
                 [DefaultTables EXCEPT
                     !.upvar_capture_map = (DefaultUpvarId :> capture),
                     !.closure_tys = ("clo" :> closure.ty),
                     !.closure_kinds = ("clo" :> closure.kind),
                     !.liberated_fn_sigs = ("fn" :> fn_sig),
                     !.fru_field_types = nodes.fru])

\* Opaque types: the concrete types of the `impl Trait` nodes and the
\* function's own generic parameters.
AnonRegions ==
    {ReStatic, ReEmpty, ReErased, ReScope, ReLateBound, ReSkolemized,
     Named("a"), Named("b"), Named("c"), ReFree(BrAnon), ReEarlyBound(0, "a"), ReVar(1)}
FreeSubsts ==
    {<<Named("a")>>, <<TyParam, Named("a"), Named("b")>>, <<Named("b"), TyParam, Named("a")>>}
InitOpaque ==
    \E tys \in [TyVids -> TySols],
       res \in [RegionVids -> {Named("a"), Unresolved}],
       err \in ErrStates2 :
      \E ret1 \in {EmptyMap} \cup {"ret1" :> TyRef(r, TyAdt) : r \in AnonRegions},
         ret2 \in {EmptyMap, "ret2" :> TyRef(Named("b"), TyRef(ReScope, TyInfer(1)))},
         substs \in FreeSubsts :
        InitWith(tys, res, err, DefaultBodyOp, substs, ret1 @@ ret2, EmptyMap,
                 DefaultLocals, DefaultTables)

Init == InitOperators \/ InitAdjustments \/ InitSubsts \/ InitSweep \/ InitOpaque

Spec == Init /\ [][Next]_vars

\* ------------------------------------------------------------------ claims
\* The pass has returned the final table.
Done == pc = "done"

\* An entry of each category of the final table mentions an inference
\* variable.
AdjustmentNeedsInfer(adjustment) ==
    \/ needs_infer_ty(adjustment.target)
    \/ adjustment.kind.k = "DerefRef" /\ needs_infer(adjustment.kind.autoref)
MethodNeedsInfer(method) == needs_infer_ty(method.ty) \/ needs_infer(method.substs)
CaptureNeedsInfer(capture) == capture.k = "ByRef" /\ needs_infer_region(capture.region)
Residue(t) ==
    \/ \E n \in DOMAIN t.node_types : needs_infer_ty(t.node_types[n])
    \/ \E n \in DOMAIN t.item_substs : needs_infer(t.item_substs[n])
    \/ \E n \in DOMAIN t.adjustments : AdjustmentNeedsInfer(t.adjustments[n])
    \/ \E m \in DOMAIN t.method_map : MethodNeedsInfer(t.method_map[m])
    \/ \E c \in DOMAIN t.closure_tys : needs_infer(t.closure_tys[c])
    \/ \E u \in DOMAIN t.upvar_capture_map : CaptureNeedsInfer(t.upvar_capture_map[u])
    \/ \E f \in DOMAIN t.liberated_fn_sigs : needs_infer(t.liberated_fn_sigs[f])
    \/ \E n \in DOMAIN t.fru_field_types : needs_infer(t.fru_field_types[n])
    \/ \E p \in t.free_region_map : needs_infer(p)

\* A type with every solved variable replaced by its solution.
RECURSIVE Solved(_)
SolvedRegion(r) == IF r.k = "ReVar" /\ re_sol[r.vid] # Unresolved THEN re_sol[r.vid] ELSE r
Solved(t) ==
    CASE t.k = "TyInfer" -> IF ty_sol[t.vid] # Unresolved THEN ty_sol[t.vid] ELSE t
      [] t.k = "TyRef" -> TyRef(SolvedRegion(t.r), Solved(t.t))
      [] OTHER -> t

\* C1 (no-residue invariant): when the pass has finished without a fatal
\* internal error, no entry of any category of the final table mentions a
\* type or region inference variable, and the type stored for each visited node
\* is its scratch type with the variables replaced by their solutions, or the
\* error type.
C1_NoResidue ==
    Done =>
        /\ ~Residue(tables)
        /\ \A n \in visited :
              /\ n \in DOMAIN tables.node_types
              /\ tables.node_types[n] \in {Solved(fcx_tables0.node_types[n]), TyError}

\* C1 witness: a finished pass whose scratch closure signature mentioned an
\* unsolved type variable and a region variable, and whose final closure
\* signature holds the error type in its place.
C1_Witness ==
    /\ Done
    /\ needs_infer(fcx_tables0.closure_tys["clo"])
    /\ ty_sol[1] = Unresolved
    /\ tables.closure_tys["clo"][1] = TyError
    /\ tables.node_types["local"] = TyError

TransferredSteps(n) ==
    IF n \in DOMAIN tables.adjustments /\ tables.adjustments[n].kind.k = "DerefRef"
    THEN 0..(tables.adjustments[n].kind.autoderefs - 1)
    ELSE {}

ScalarOperand(id) == Solved(fcx_tables0.node_types[id]) = TyInt
ScalarBinop ==
    /\ body_op.kind \in {"ExprBinary", "ExprAssignOp"}
    /\ ScalarOperand("lhs")
    /\ ScalarOperand("rhs")

ExpectedTy(t) == IF needs_infer_ty(Solved(t)) THEN TyError ELSE Solved(t)

\* The concrete type of an opaque-type node as the pass resolves it.
InsideTy(node_id) == ExpectedTy(anon_types[node_id])

\* The regions of a type, outermost first.
RECURSIVE RegionsIn(_)
RegionsIn(t) == IF t.k = "TyRef" THEN <<t.r>> \o RegionsIn(t.t) ELSE <<>>

\* r is the named free region of one of the function's own lifetime
\* parameters, and i is the parameter's position in free_substs.
OwnParamAt(r, i) ==
    /\ r.k = "ReFree"
    /\ r.bound_region.k = "BrNamed"
    /\ i \in 1..Len(free_substs)
    /\ IsRegion(free_substs[i])
    /\ free_substs[i].k = "ReFree"
    /\ free_substs[i].bound_region.k = "BrNamed"
    /\ free_substs[i].bound_region.def_id = r.bound_region.def_id
OwnParam(r) == \E i \in 1..Len(free_substs) : OwnParamAt(r, i)

\* The "only named lifetimes are allowed" error was reported at the node for
\* the region.
ReportedE0564(node_id, r) ==
    \E d \in 1..Len(sess.diags) :
        sess.diags[d] = [code |-> "E0564", span |-> node_id, what |-> r]

\* C4 (opaque-type externalization): when the pass is done, for every
\* opaque-type node and every named free region of one of the function's own
\* lifetime parameters in the node's resolved concrete type, the type stored
\* for the node in the final node types has at that position the parameter's
\* early-bound form with the parameter's zero-based index in free_substs and
\* its name, no E0564 error was reported for the region at that node, and no
\* free region is left in the stored type.
C4_OpaqueExternalization ==
    Done =>
        \A node_id \in DOMAIN anon_types :
            /\ node_id \in DOMAIN tables.node_types
            /\ Len(RegionsIn(tables.node_types[node_id])) = Len(RegionsIn(InsideTy(node_id)))
            /\ \A j \in 1..Len(RegionsIn(InsideTy(node_id))) :
                  \A i \in 1..Len(free_substs) :
                      OwnParamAt(RegionsIn(InsideTy(node_id))[j], i) =>
                          /\ RegionsIn(tables.node_types[node_id])[j] =
                                 ReEarlyBound(i - 1, free_substs[i].bound_region.name)
                          /\ ~ReportedE0564(node_id, RegionsIn(InsideTy(node_id))[j])
            /\ \A j \in 1..Len(RegionsIn(tables.node_types[node_id])) :
                  RegionsIn(tables.node_types[node_id])[j].k # "ReFree"

\* C4 witness: a finished pass over a function with parameters <'b, T, 'a>
\* whose opaque return type is &'a Adt: the stored type names 'a by its
\* early-bound form with index 2, and nothing was reported.
C4_Witness ==
    /\ Done
    /\ free_substs = <<Named("b"), TyParam, Named("a")>>
    /\ "ret1" \in DOMAIN anon_types
    /\ anon_types["ret1"] = TyRef(Named("a"), TyAdt)
    /\ tables.node_types["ret1"] = TyRef(ReEarlyBound(2, "a"), TyAdt)
    /\ sess.diags = <<>>

\* r is a region the opaque-type rewrite rejects: another free region, an
\* early-bound, late-bound, scope-local or skolemized region.
Rejected(r) ==
    /\ r.k \in {"ReFree", "ReEarlyBound", "ReLateBound", "ReScope", "ReSkolemized"}
    /\ ~OwnParam(r)

\* No opaque-type node has an erased region in its resolved concrete type.
NoErasedRegion ==
    \A node_id \in DOMAIN anon_types :
        \A j \in 1..Len(RegionsIn(InsideTy(node_id))) :
            RegionsIn(InsideTy(node_id))[j].k # "ReErased"

\* C5 (opaque-type rejection): when the pass is done, for every opaque-type
\* node and every rejected region in the node's resolved concrete type, the
\* E0564 "only named lifetimes are allowed" error was reported at that node
\* for that region and the type stored for the node has the static region at
\* that position; and a rejected region never ends the pass with a fatal
\* internal error: unless an erased region is met the pass is never aborted.
C5_OpaqueRejection ==
    /\ Done =>
          \A node_id \in DOMAIN anon_types :
              \A j \in 1..Len(RegionsIn(InsideTy(node_id))) :
                  Rejected(RegionsIn(InsideTy(node_id))[j]) =>
                      /\ ReportedE0564(node_id, RegionsIn(InsideTy(node_id))[j])
                      /\ node_id \in DOMAIN tables.node_types
                      /\ RegionsIn(tables.node_types[node_id])[j] = ReStatic
    /\ NoErasedRegion => pc # "aborted"

\* C5 witness: a finished pass over a function whose opaque return type is
\* &'scope Adt: the error was reported at the node and the stored type is
\* &'static Adt.
C5_Witness ==
    /\ Done
    /\ "ret1" \in DOMAIN anon_types
    /\ anon_types["ret1"] = TyRef(ReScope, TyAdt)
    /\ ReportedE0564("ret1", ReScope)
    /\ tables.node_types["ret1"] = TyRef(ReStatic, TyAdt)
    /\ sess.err_count > sess0.err_count

\* What the pass is to store for a list of types and regions: each type as
\* ExpectedTy gives it, each region solved, or static when it has no solution.
ExpectedRegion(r) == IF needs_infer_region(SolvedRegion(r)) THEN ReStatic ELSE SolvedRegion(r)
ExpectedKind(x) == IF IsRegion(x) THEN ExpectedRegion(x) ELSE ExpectedTy(x)
ExpectedSeq(xs) == [i \in 1..Len(xs) |-> ExpectedKind(xs[i])]

\* Every type position the pass has resolved holds what ExpectedTy gives, so
\* the error type wherever the solver fails: node types, the local's type,
\* closure and liberated signatures, struct-update field types, the cached
\* type nodes.
SentinelAtFailures ==
    /\ \A n \in visited : tables.node_types[n] = ExpectedTy(fcx_tables0.node_types[n])
    /\ \A l \in LocalIds : tables.node_types[l] = ExpectedTy(locals[l])
    /\ \A c \in DOMAIN fcx_tables0.closure_tys :
          tables.closure_tys[c] = ExpectedSeq(fcx_tables0.closure_tys[c])
    /\ \A f \in DOMAIN fcx_tables0.liberated_fn_sigs :
          tables.liberated_fn_sigs[f] = ExpectedSeq(fcx_tables0.liberated_fn_sigs[f])
    /\ \A n \in DOMAIN fcx_tables0.fru_field_types :
          tables.fru_field_types[n] = ExpectedSeq(fcx_tables0.fru_field_types[n])
    /\ \A a \in DOMAIN ast_ty_to_ty_cache :
          tcx_ast_ty_to_ty_cache[a] = ExpectedTy(ast_ty_to_ty_cache[a])

\* The number of "type annotations needed" diagnostics reported so far.
NeedTypeInfoCount == Cardinality({d \in 1..Len(sess.diags) : sess.diags[d].code = "E0282"})

\* The function was tainted by an earlier error when the pass began.
TaintedBefore == sess0.err_count > err_count_on_creation \/ tainted_by_errors_flag

\* C6 (tainted propagation): when the function was already tainted by an
\* earlier error, the pass never reports a "type annotations needed"
\* diagnostic, is not aborted (no erased region in an opaque type aside), and
\* when it is done the final table has tainted_by_errors = TRUE and the error
\* type stands at every type position the solver failed on.
C6_TaintedPropagation ==
    TaintedBefore =>
        /\ NeedTypeInfoCount = 0
        /\ NoErasedRegion => pc # "aborted"
        /\ Done => tables.tainted_by_errors /\ SentinelAtFailures

\* C6 witness: a finished pass over a tainted function with an unsolved type
\* variable in the local's type and in the closure signature: the error type
\* was stored for both, nothing was reported, the final table is tainted.
C6_Witness ==
    /\ Done
    /\ TaintedBefore
    /\ ty_sol[1] = Unresolved
    /\ fcx_tables0.closure_tys["clo"][1] = TyInfer(1)
    /\ tables.closure_tys["clo"][1] = TyError
    /\ tables.node_types["local"] = TyError
    /\ tables.tainted_by_errors
    /\ sess.diags = <<>>

\* The resolved substitution list of node n is not a no-op.
StoresSubsts(n) ==
    /\ n \in DOMAIN fcx_tables0.item_substs
    /\ ExpectedSeq(fcx_tables0.item_substs[n]) # <<>>

\* C7 (substitution pruning): when the pass is done, a node handed to
\* visit_node_id has a substitution entry in the final table if and only if
\* its resolved substitution list is not a no-op, and the entry is the
\* resolved list; and handing a node without such an entry to visit_node_id
\* once more leaves the entry absent.
C7_SubstitutionPruning ==
    /\ Done =>
          \A n \in visited :
              /\ n \in DOMAIN tables.item_substs <=> StoresSubsts(n)
              /\ StoresSubsts(n) =>
                    tables.item_substs[n] = ExpectedSeq(fcx_tables0.item_substs[n])
    /\ \A n \in visited :
          (pc # "aborted" /\ ~StoresSubsts(n)) =>
              n \notin DOMAIN visit_node_id(World, n, n).tables.item_substs

\* C7 witness: a finished pass over a body whose operator expression had an
\* empty substitution list in scratch: the final table has no substitution
\* entry for it, and the scratch entry is still there to be transferred again.
C7_Witness ==
    /\ Done
    /\ "op" \in visited
    /\ "op" \in DOMAIN fcx_tables.item_substs
    /\ fcx_tables.item_substs["op"] = <<>>
    /\ "op" \notin DOMAIN tables.item_substs
    /\ "op" \notin DOMAIN visit_node_id(World, "op", "op").tables.item_substs

\* The solver fails on a type position the pass has resolved.
FailedTyIn(xs) == \E i \in 1..Len(xs) : IsTy(xs[i]) /\ ExpectedTy(xs[i]) # Solved(xs[i])
FailedTyPosition ==
    \/ \E n \in visited : FailedTyIn(<<fcx_tables0.node_types[n]>>)
    \/ \E l \in LocalIds : l \in DOMAIN tables.node_types /\ FailedTyIn(<<locals[l]>>)
    \/ \E c \in DOMAIN tables.closure_tys : FailedTyIn(fcx_tables0.closure_tys[c])
    \/ \E f \in DOMAIN tables.liberated_fn_sigs : FailedTyIn(fcx_tables0.liberated_fn_sigs[f])
    \/ \E n \in DOMAIN tables.fru_field_types : FailedTyIn(fcx_tables0.fru_field_types[n])

\* C8 (ambiguous-type recovery): when the compilation had no error before
\* the pass, the "type annotations needed" diagnostic is reported at most
\* once, and exactly once as soon as the solver has failed on a type position
\* the pass resolved (no other error having been reported meanwhile); the
\* pass is not aborted (no erased region in an opaque type aside), and when
\* it is done the error type stands at every type position the solver failed
\* on.
C8_AmbiguousTypeRecovery ==
    sess0.err_count = 0 =>
        /\ NeedTypeInfoCount <= 1
        /\ (FailedTyPosition /\ sess.err_count = NeedTypeInfoCount) => NeedTypeInfoCount = 1
        /\ NoErasedRegion => pc # "aborted"
        /\ Done => SentinelAtFailures

\* C8 witness: a finished pass, begun without errors, over a body with an
\* unsolved type variable in the local's type, in an operand's type and in
\* the closure signature: the error type stands at the three positions and
\* one diagnostic was reported.
C8_Witness ==
    /\ Done
    /\ sess0.err_count = 0
    /\ ty_sol[1] = Unresolved
    /\ fcx_tables0.closure_tys["clo"][1] = TyInfer(1)
    /\ tables.closure_tys["clo"][1] = TyError
    /\ tables.node_types["local"] = TyError
    /\ NeedTypeInfoCount = 1
    /\ sess.err_count = 1

\* What the pass is to store for an upvar capture: a by-reference capture
\* with its region resolved, a by-value capture as it is.
ExpectedCapture(capture) ==
    IF capture.k = "ByRef"
    THEN [k |-> "ByRef", kind |-> capture.kind, region |-> ExpectedRegion(capture.region)]
    ELSE capture

\* The final table holds, for the five whole-function categories, one entry
\* per key of the scratch table as type checking left it, with the folded
\* value (the closure kind as it was).
SweptIntoFinal ==
    /\ DOMAIN tables.closure_tys = DOMAIN fcx_tables0.closure_tys
    /\ \A c \in DOMAIN fcx_tables0.closure_tys :
          tables.closure_tys[c] = ExpectedSeq(fcx_tables0.closure_tys[c])
    /\ tables.closure_kinds = fcx_tables0.closure_kinds
    /\ DOMAIN tables.upvar_capture_map = DOMAIN fcx_tables0.upvar_capture_map
    /\ \A u \in DOMAIN fcx_tables0.upvar_capture_map :
          tables.upvar_capture_map[u] = ExpectedCapture(fcx_tables0.upvar_capture_map[u])
    /\ DOMAIN tables.liberated_fn_sigs = DOMAIN fcx_tables0.liberated_fn_sigs
    /\ \A f \in DOMAIN fcx_tables0.liberated_fn_sigs :
          tables.liberated_fn_sigs[f] = ExpectedSeq(fcx_tables0.liberated_fn_sigs[f])
    /\ DOMAIN tables.fru_field_types = DOMAIN fcx_tables0.fru_field_types
    /\ \A n \in DOMAIN fcx_tables0.fru_field_types :
          tables.fru_field_types[n] = ExpectedSeq(fcx_tables0.fru_field_types[n])

Inserted(table, key) ==
    \E i \in 1..Len(log) : log[i].table = table /\ log[i].key = key
InsertedAt(table, key) ==
    CHOOSE i \in 1..Len(log) : log[i].table = table /\ log[i].key = key

\* The node's adjustment in the final table is a deref/ref adjustment.
DerefRefTransferred(n) ==
    /\ n \in DOMAIN tables.adjustments
    /\ n \in DOMAIN fcx_tables0.adjustments
    /\ fcx_tables0.adjustments[n].kind.k = "DerefRef"

\* C10 (adjustment transfer order): once visit_adjustments has inserted a
\* node's deref/ref adjustment with N auto-dereference steps into the final
\* table, every method-call entry scratch held for a step i in 0..N-1 of
\* the node is gone from scratch and in the final table with the same
\* definition identity, it was inserted before the adjustment was, and the
\* stored adjustment has the same step count N.
C10_AdjustmentTransferOrder ==
    \A n \in DOMAIN tables.adjustments :
        DerefRefTransferred(n) =>
            /\ tables.adjustments[n].kind.k = "DerefRef"
            /\ tables.adjustments[n].kind.autoderefs =
                   fcx_tables0.adjustments[n].kind.autoderefs
            /\ Inserted("adjustments", n)
            /\ \A i \in 0..(fcx_tables0.adjustments[n].kind.autoderefs - 1) :
                  MethodCall_autoderef(n, i) \in DOMAIN fcx_tables0.method_map =>
                      /\ MethodCall_autoderef(n, i) \notin DOMAIN fcx_tables.method_map
                      /\ MethodCall_autoderef(n, i) \in DOMAIN tables.method_map
                      /\ tables.method_map[MethodCall_autoderef(n, i)].def_id =
                             fcx_tables0.method_map[MethodCall_autoderef(n, i)].def_id
                      /\ Inserted("method_map", MethodCall_autoderef(n, i))
                      /\ InsertedAt("method_map", MethodCall_autoderef(n, i)) <
                             InsertedAt("adjustments", n)

\* C10 witness: the adjustment of "lhs", a deref/ref adjustment with two
\* steps of which the second had a method-call entry in scratch, is in the
\* final table, and so is that step's method entry.
C10_Witness ==
    /\ "lhs" \in DOMAIN tables.adjustments
    /\ DerefRefTransferred("lhs")
    /\ fcx_tables0.adjustments["lhs"].kind.autoderefs = 2
    /\ MethodCall_autoderef("lhs", 1) \in DOMAIN fcx_tables0.method_map
    /\ MethodCall_autoderef("lhs", 0) \notin DOMAIN fcx_tables0.method_map
    /\ tables.method_map[MethodCall_autoderef("lhs", 1)].def_id = <<"deref", 1>>
    /\ tables.adjustments["lhs"].kind.autoderefs = 2

\* The world after the closure of visit_anon_types is called on region r of
\* the opaque-type node "ret1" whose resolved concrete type is &r Adt.
AnonOutcome(r) ==
    anon_region([World EXCEPT !.vals = <<<<TyRef(r, TyAdt)>>, <<>>>>],
                "ret1", r, TyRef(r, TyAdt))

\* The closure ended the pass with a fatal internal error on r: nothing was
\* reported and no region was returned.
FatalOutcome(out, r) ==
    /\ out.ice = [k |-> "invalid region in impl Trait", span |-> "ret1", region |-> r]
    /\ out.sess = sess
    /\ out.vals[2] = <<>>
    /\ out.tables = tables

\* The closure returned a region for r without a fatal internal error: r
\* itself when it is static or empty, the early-bound form of an own
\* lifetime parameter, and otherwise the static region after an E0564 error.
ReturnedOutcome(out, r) ==
    /\ out.ice = NoIce
    /\ Len(out.vals[2]) = 1
    /\ \/ r.k \in {"ReStatic", "ReEmpty"} /\ out.vals[2][1] = r /\ out.sess = sess
       \/ OwnParam(r) /\ out.vals[2][1].k = "ReEarlyBound" /\ out.sess = sess
       \/ /\ Rejected(r)
          /\ out.vals[2][1] = ReStatic
          /\ out.sess.err_count = sess.err_count + 1
          /\ out.sess.diags =
                 Append(sess.diags, [code |-> "E0564", span |-> "ret1", what |-> r])

\* The passes past the opaque-type rewrite step.
PastAnonTypes ==
    pc \in {"visit_cast_types", "visit_lints", "visit_free_region_map", "alloc_tables", "done"}

\* C11 (fatal opaque-region states): in the opaque-type rewrite step of a
\* function with opaque types the closure ends the pass with a fatal
\* internal error on an erased region and on a region variable, reporting
\* nothing and returning no region, and on every other region kind it
\* returns a region without a fatal error; a pass
\* whose opaque types hold an erased region never gets past the step, so no
\* final table is produced; and an aborted pass was aborted by this fatal
\* error, has no stored type and no E0564 error for the offending node, and
\* has not set tainted_by_errors in the table.
C11_FatalOpaqueRegions ==
    /\ (pc = "visit_anon_types" /\ DOMAIN anon_types # {}) =>
          \A r \in AnonRegions \cup ReVars :
              IF r.k \in {"ReErased", "ReVar"}
              THEN FatalOutcome(AnonOutcome(r), r)
              ELSE ReturnedOutcome(AnonOutcome(r), r)
    /\ PastAnonTypes => NoErasedRegion
    /\ pc = "aborted" =>
          /\ ice.k = "invalid region in impl Trait"
          /\ ice.region.k \in {"ReErased", "ReVar"}
          /\ ice.span \in DOMAIN anon_types
          /\ ice.span \notin DOMAIN tables.node_types
          /\ ~ReportedE0564(ice.span, ice.region)
          /\ ~tables.tainted_by_errors

\* C11 witness: a pass over a function whose opaque return type is
\* &'erased Adt was aborted at that node: no type is stored for it and
\* nothing was reported.
C11_Witness ==
    /\ pc = "aborted"
    /\ "ret1" \in DOMAIN anon_types
    /\ anon_types["ret1"] = TyRef(ReErased, TyAdt)
    /\ ice = [k |-> "invalid region in impl Trait", span |-> "ret1", region |-> ReErased]
    /\ "ret1" \notin DOMAIN tables.node_types
    /\ sess.diags = <<>>

====
